---- MODULE Spec2Model ----
(***************************************************************************)
(* The execution engine of sourcecode.c (execute_brainfuck): one action    *)
(* per instruction kind, each covering one whole iteration of the          *)
(* dispatch loop (src/sourcecode.c:75-209) including the trailing pc++,    *)
(* plus the post-loop check in Finish.  Positions are 0-based as in the C  *)
(* code; TLA+ sequences are 1-based, so instruction pc is code[pc + 1].    *)
(***************************************************************************)
EXTENDS Integers, Sequences, FiniteSets, TLC

VARIABLES
    source,         \* main's program buffer: the characters fread stored
    code,           \* char* code: the cleaned instruction sequence
    wrap_memory,    \* config.wrap_memory
    memory_size,    \* config.memory_size
    eof_behavior,   \* config.eof_behavior
    debug_mode,     \* config.debug_mode
    memory,         \* the tape: memory[0 .. memory_size-1]
    ptr,            \* the data pointer, as the index ptr - memory
    pc,             \* program counter
    loop_stack,     \* loop_stack[0 .. stack_pos-1]; stack_pos is its length
    input_buffer,   \* chars stored by the last successful fgets
    input_pos,
    input_size,
    stdin,          \* bytes of the input source not yet read by fgets
    stdout,         \* bytes written by putchar
    stderr,         \* diagnostics written by fprintf(stderr, ...)
    debug_out,      \* what the last call of print_debug_state printed
    state,          \* "loaded" before clean_code, "running" inside
                    \* execute_brainfuck, "returned" after it
    \* history variables (observers; no action reads them in a guard)
    stdin0,         \* the input source as it was at start
    written,        \* the values `,` has stored from the input buffer, in order
    eof_seen,       \* TRUE once `,` has taken its EOF branch
    open_unmatched, \* TRUE once a `[` without a matching `]` was dispatched
    body_runs,      \* how many times a loop body was entered (up to RunCap)
    twin,           \* a second run of the same program, stepped along with this one
    hist            \* snapshots taken before the last (at most two) dispatches

vars == <<source, code, wrap_memory, memory_size, eof_behavior, debug_mode, memory,
          ptr, pc, loop_stack, input_buffer, input_pos, input_size, stdin,
          stdout, stderr, debug_out, state, stdin0, written, eof_seen,
          open_unmatched, body_runs, twin, hist>>

(***************************************************************************)
(* Program constants and model bounds                                      *)
(***************************************************************************)
DEFAULT_MEMORY_SIZE == 30000
MAX_NESTED_LOOPS == 1000
INPUT_BUFFER_SIZE == 4096
CellMod == 256

MaxLen == 3          \* programs over the full alphabet have at most MaxLen instructions
MaxBracketLen == 5   \* programs over + - [ ] have at most MaxBracketLen instructions
MaxMem == 3          \* memory_size ranges over 1 .. MaxMem
MaxIn == 2           \* the input source holds at most MaxIn bytes
MaxOut == 3          \* a run is followed until it has written MaxOut bytes
RunCap == 256        \* body_runs counts up to RunCap and stays there

Alphabet == {">", "<", "+", "-", ".", ",", "[", "]"}
InputBytes == {0, 10, 200}

SeqsUpTo(S, n) == UNION {[1..k -> S] : k \in 0..n}
Repeat(c, n) == [i \in 1..n |-> c]

(***************************************************************************)
(* Pure helpers of the engine                                              *)
(***************************************************************************)
\* (variant of IncCell: the cell kept in a wider integer, no wraparound)
IncCellWide(v) == v + 1
\* (*ptr)++ and (*ptr)-- on an unsigned char
IncCell(v) == (v + 1) % CellMod
DecCell(v) == (v - 1) % CellMod

\* a byte read by fgets as stored in a char of input_buffer (char taken as
\* signed; the cast below gives the same byte for an unsigned char too)
ToChar(b) == IF b >= 128 THEN b - 256 ELSE b
\* the cast (unsigned char)input_buffer[input_pos]
ToUChar(c) == c % CellMod

\* (variant of RightAllowed: the edge test off by one)
RightAllowedLate(p, size, wrap) == wrap \/ p < size
\* `>`: the test that decides between moving and the out-of-bounds return
RightAllowed(p, size, wrap) == wrap \/ p < size - 1
\* (variant of RightTarget: the pointer stays at the last index instead of wrapping)
RightTargetStick(p, size, wrap) ==
    IF wrap THEN (IF p = size - 1 THEN p ELSE p + 1) ELSE p + 1
RightTarget(p, size, wrap) ==
    IF wrap THEN (IF p = size - 1 THEN 0 ELSE p + 1) ELSE p + 1

\* `<`
LeftAllowed(p, size, wrap) == wrap \/ p > 0
\* (variant of LeftTarget: the wrap from 0 goes to memory + memory_size)
LeftTargetPast(p, size, wrap) ==
    IF wrap THEN (IF p = 0 THEN size ELSE p - 1) ELSE p - 1
LeftTarget(p, size, wrap) ==
    IF wrap THEN (IF p = 0 THEN size - 1 ELSE p - 1) ELSE p - 1

\* fgets(input_buffer, INPUT_BUFFER_SIZE, stdin): the bytes it takes from the
\* stream, through the first newline, at most INPUT_BUFFER_SIZE - 1 of them;
\* the empty sequence stands for the NULL return at end of input
RECURSIVE FgetsCount(_, _)
FgetsCount(s, n) ==
    IF n >= Len(s) \/ n >= INPUT_BUFFER_SIZE - 1 THEN n
    ELSE IF s[n + 1] = 10 THEN n + 1
    ELSE FgetsCount(s, n + 1)
Fgets(s) == SubSeq(s, 1, FgetsCount(s, 0))

\* strlen(input_buffer): the chars before the terminating NUL fgets appended
RECURSIVE StrLenFrom(_, _)
StrLenFrom(buf, n) ==
    IF n >= Len(buf) \/ buf[n + 1] = 0 THEN n ELSE StrLenFrom(buf, n + 1)
StrLen(buf) == StrLenFrom(buf, 0)

\* the forward skip of `[` on a zero cell: from pc = p with the given nest
\* level, where the scan stops and whether it found the level-0 `]`
\* (variants of SkipScan: one that does not count nested `[`, one that takes
\* the end of the sequence for the matching `]`)
RECURSIVE SkipScanFlat(_, _, _)
SkipScanFlat(c, p, nest) ==
    IF nest = 0 THEN [pc |-> p, found |-> TRUE]
    ELSE IF p + 1 >= Len(c) THEN [pc |-> p + 1, found |-> FALSE]
    ELSE SkipScanFlat(c, p + 1, IF c[p + 2] = "]" THEN nest - 1 ELSE nest)
RECURSIVE SkipScanNoEnd(_, _, _)
SkipScanNoEnd(c, p, nest) ==
    IF nest = 0 \/ p + 1 >= Len(c) THEN [pc |-> p, found |-> TRUE]
    ELSE SkipScanNoEnd(c, p + 1,
                       IF c[p + 2] = "[" THEN nest + 1
                       ELSE IF c[p + 2] = "]" THEN nest - 1
                       ELSE nest)
RECURSIVE SkipScan(_, _, _)
SkipScan(c, p, nest) ==
    IF nest = 0 THEN [pc |-> p, found |-> TRUE]
    ELSE IF p + 1 >= Len(c) THEN [pc |-> p + 1, found |-> FALSE]
    ELSE SkipScan(c, p + 1,
                  IF c[p + 2] = "[" THEN nest + 1
                  ELSE IF c[p + 2] = "]" THEN nest - 1
                  ELSE nest)

\* the position reported with "Unmatched '['": pc has already run off the end
UnmatchedOpenPos(stack, p) == IF Len(stack) > 0 THEN stack[Len(stack)] ELSE p

\* (variant of JumpBack: the next dispatch is the `[` itself)
JumpBackReenter(stack) == stack[Len(stack)] - 1
\* pc = loop_stack[stack_pos - 1] at `]`, before the pc++ that ends the step
JumpBack(stack) == stack[Len(stack)]

\* stack_pos >= MAX_NESTED_LOOPS at `[`
\* (variant: the capacity test off by one)
StackFullLate(stack) == Len(stack) > MAX_NESTED_LOOPS
StackFull(stack) == Len(stack) >= MAX_NESTED_LOOPS

(***************************************************************************)
(* Initial states                                                          *)
(***************************************************************************)
Programs == SeqsUpTo(Alphabet, MaxLen)
BracketPrograms == SeqsUpTo({"+", "-", "[", "]"}, MaxBracketLen)
LongPrograms ==
    { Repeat("+", CellMod),
      <<"+">> \o Repeat("[", MAX_NESTED_LOOPS + 1),
      <<"+">> \o Repeat("[", MAX_NESTED_LOOPS) \o <<"-", "[">> }
Examples ==
    { <<",", ".", ",", ".">>,
      <<"+", "+", "+", "[", "-", "]">>,
      Repeat("+", 8) \o <<"[", ">">> \o Repeat("+", 8)
          \o <<"<", "-", "]", ">", ".">> }
Inputs == SeqsUpTo(InputBytes, MaxIn) \cup {<<65>>}

Uses(c, S) == \E i \in 1..Len(c) : c[i] \in S

\* A configuration field the program cannot read is fixed (to main()'s default
\* for the flags, to the smallest tape for memory_size).
\* the value of twin when no second run is followed
NoTwin == [mode |-> "none"]

Init ==
    /\ code \in Programs \cup BracketPrograms \cup LongPrograms \cup Examples
    /\ source = code
    /\ wrap_memory \in (IF Uses(code, {">", "<"}) THEN BOOLEAN ELSE {FALSE})
    /\ memory_size \in (IF Uses(code, {">", "<"}) THEN 1..MaxMem ELSE {1})
    /\ eof_behavior \in (IF Uses(code, {","}) THEN BOOLEAN ELSE {FALSE})
    /\ debug_mode = FALSE
    /\ stdin \in (IF Uses(code, {","}) THEN Inputs ELSE {<< >>})
    /\ memory = [i \in 0..(memory_size - 1) |-> 0]
    /\ ptr = 0
    /\ pc = 0
    /\ loop_stack = << >>
    /\ input_buffer = << >>
    /\ input_pos = 0
    /\ input_size = 0
    /\ stdout = << >>
    /\ stderr = << >>
    /\ debug_out = << >>
    /\ state = "running"
    /\ stdin0 = stdin
    /\ written = << >>
    /\ eof_seen = FALSE
    /\ open_unmatched = FALSE
    /\ body_runs = 0
    /\ twin = NoTwin
    /\ hist = << >>

\* The static bracket structure of a program: `[` at p and `]` at q form a
\* pair when q is the first position after p where the count of `[` minus
\* the count of `]` over p..q returns to 0.
Count(c, ch, i, j) == Cardinality({k \in i..j : c[k + 1] = ch})
Balance(c, i, j) == Count(c, "[", i, j) - Count(c, "]", i, j)
IsPair(c, p, q) ==
    /\ p < q
    /\ c[p + 1] = "["
    /\ c[q + 1] = "]"
    /\ Balance(c, p, q) = 0
    /\ \A r \in (p + 1)..(q - 1) : Balance(c, p, r) > 0
HasClose(c, p) == \E q \in (p + 1)..(Len(c) - 1) : IsPair(c, p, q)
HasOpen(c, q) == \E p \in 0..(q - 1) : IsPair(c, p, q)
CloseOf(c, p) == CHOOSE q \in (p + 1)..(Len(c) - 1) : IsPair(c, p, q)
OpenOf(c, q) == CHOOSE p \in 0..(q - 1) : IsPair(c, p, q)

\* the refill of case ',': what input_buffer, input_size, input_pos and the
\* stream are after the if (input_pos >= input_size) block
Refill(buf, pos, size, stream) ==
    IF pos >= size
    THEN LET line == Fgets(stream)
         IN  IF line # << >>
             THEN [buf |-> [i \in 1..Len(line) |-> ToChar(line[i])],
                   pos |-> 0,
                   size |-> StrLen(line),
                   stream |-> SubSeq(stream, Len(line) + 1, Len(stream))]
             ELSE [buf |-> buf, pos |-> 0, size |-> 0, stream |-> stream]
    ELSE [buf |-> buf, pos |-> pos, size |-> size, stream |-> stream]

\* the cell after the EOF branch
\* (variant of EofCell: the flag ignored)
EofCellZero(v, eof) == 0
EofCell(v, eof) == IF eof THEN 0 ELSE v

(***************************************************************************)
(* print_debug_state: the debug print made before each dispatch            *)
(***************************************************************************)
DebugContext == 10
DebugStart(p) == IF p > DebugContext THEN p - DebugContext ELSE 0
DebugEnd(p, size) == IF p + DebugContext < size THEN p + DebugContext ELSE size - 1
\* what is printed: the program counter, the instruction, the bounds of the
\* window, the cells of the window and which of them is the current one
PrintDebugState(mem, p, size, at, ins) ==
    [pc |-> at, ins |-> ins, start |-> DebugStart(p), end |-> DebugEnd(p, size),
     cells |-> [i \in DebugStart(p)..DebugEnd(p, size) |-> mem[i]],
     ptr |-> p]

(***************************************************************************)
(* One whole iteration of the engine as a function on a record of the      *)
(* engine's locals and streams, used to step a second run (twin) of the    *)
(* same program under the same wrap, size and EOF settings.  A twin of     *)
(* mode "engine" runs the loop of execute_brainfuck; a twin of mode        *)
(* "table" is the reference interpreter that takes its jumps from the      *)
(* static bracket pairs and keeps no stack.                                *)
(***************************************************************************)
Twin0(mode, dbg) ==
    [mode |-> mode, debug_mode |-> dbg,
     memory |-> [i \in 0..(memory_size - 1) |-> 0], ptr |-> 0, pc |-> 0,
     loop_stack |-> << >>, input_buffer |-> << >>, input_pos |-> 0,
     input_size |-> 0, stdin |-> stdin, stdout |-> << >>, stderr |-> << >>,
     debug_out |-> << >>, state |-> "running"]

Halted(t, kind, arg) ==
    [t EXCEPT !.stderr = Append(@, [kind |-> kind, arg |-> arg]),
              !.state = "returned"]

\* > < + - . ,
DataStep(t, c) ==
    CASE c = ">" ->
           IF RightAllowed(t.ptr, memory_size, wrap_memory)
           THEN [t EXCEPT !.ptr = RightTarget(@, memory_size, wrap_memory),
                          !.pc = @ + 1]
           ELSE Halted(t, "OutOfBounds", t.pc)
      [] c = "<" ->
           IF LeftAllowed(t.ptr, memory_size, wrap_memory)
           THEN [t EXCEPT !.ptr = LeftTarget(@, memory_size, wrap_memory),
                          !.pc = @ + 1]
           ELSE Halted(t, "OutOfBounds", t.pc)
      [] c = "+" -> [t EXCEPT !.memory[t.ptr] = IncCell(@), !.pc = @ + 1]
      [] c = "-" -> [t EXCEPT !.memory[t.ptr] = DecCell(@), !.pc = @ + 1]
      [] c = "." -> [t EXCEPT !.stdout = Append(@, t.memory[t.ptr]), !.pc = @ + 1]
      [] c = "," ->
           LET r == Refill(t.input_buffer, t.input_pos, t.input_size, t.stdin)
           IN  [t EXCEPT !.input_buffer = r.buf,
                         !.input_size = r.size,
                         !.stdin = r.stream,
                         !.input_pos = IF r.pos < r.size THEN r.pos + 1 ELSE r.pos,
                         !.memory[t.ptr] = IF r.pos < r.size
                                           THEN ToUChar(r.buf[r.pos + 1])
                                           ELSE EofCell(@, eof_behavior),
                         !.pc = @ + 1]

\* [ ] with the run-time stack and the forward scan
StackStep(t, c) ==
    IF c = "["
    THEN IF t.memory[t.ptr] = 0
         THEN LET r == SkipScan(code, t.pc, 1)
              IN  IF r.found
                  THEN [t EXCEPT !.pc = r.pc + 1]
                  ELSE [Halted(t, "UnmatchedOpen",
                               UnmatchedOpenPos(t.loop_stack, r.pc))
                           EXCEPT !.pc = r.pc]
         ELSE IF StackFull(t.loop_stack)
              THEN Halted(t, "LoopStackOverflow", MAX_NESTED_LOOPS)
              ELSE [t EXCEPT !.loop_stack = Append(@, t.pc), !.pc = @ + 1]
    ELSE IF Len(t.loop_stack) <= 0
         THEN Halted(t, "UnmatchedClose", t.pc)
         ELSE IF t.memory[t.ptr] # 0
              THEN [t EXCEPT !.pc = JumpBack(t.loop_stack) + 1]
              ELSE [t EXCEPT !.loop_stack = SubSeq(@, 1, Len(@) - 1),
                             !.pc = @ + 1]

\* [ ] of the reference interpreter: `[` on zero continues after the matching
\* `]`, `]` on non-zero continues after the matching `[`
TableStep(t, c) ==
    IF c = "["
    THEN [t EXCEPT !.pc = IF t.memory[t.ptr] = 0
                          THEN CloseOf(code, t.pc) + 1 ELSE @ + 1]
    ELSE [t EXCEPT !.pc = IF t.memory[t.ptr] # 0
                          THEN OpenOf(code, t.pc) + 1 ELSE @ + 1]

TwinStep(t) ==
    IF t.mode = "none" \/ t.state # "running" THEN t
    ELSE IF t.pc >= Len(code)
    THEN [t EXCEPT !.state = "returned",
                   !.stderr = IF Len(t.loop_stack) # 0
                              THEN Append(@, [kind |-> "UnclosedLoops",
                                              arg |-> Len(t.loop_stack)])
                              ELSE @]
    ELSE LET c == code[t.pc + 1]
             u == IF t.debug_mode
                  THEN [t EXCEPT !.debug_out =
                          PrintDebugState(t.memory, t.ptr, memory_size, t.pc, c)]
                  ELSE t
         IN  IF c \in {"[", "]"}
             THEN IF t.mode = "table" THEN TableStep(u, c) ELSE StackStep(u, c)
             ELSE DataStep(u, c)


\* every `[` of c has a matching `]` and every `]` a matching `[`
WellMatched(c) ==
    \A p \in 0..(Len(c) - 1) :
        /\ c[p + 1] = "[" => HasClose(c, p)
        /\ c[p + 1] = "]" => HasOpen(c, p)

\* positions of the `[` of c that have no matching `]`
OpenUnmatched(c) ==
    {p \in 0..(Len(c) - 1) : c[p + 1] = "[" /\ ~HasClose(c, p)}

(***************************************************************************)
(* One iteration of while (pc < code_length): fetch and dispatch           *)
(***************************************************************************)
Dispatch(c) ==
    /\ state = "running"
    /\ pc < Len(code)
    /\ code[pc + 1] = c

\* if (config.debug_mode) print_debug_state(memory, ptr, config.memory_size, pc, instruction);
DebugHook(c) ==
    debug_out' = IF debug_mode
                 THEN PrintDebugState(memory, ptr, memory_size, pc, c)
                 ELSE debug_out


Diag(kind, arg) == [kind |-> kind, arg |-> arg]

\* fprintf(stderr, ...); free(memory); free(loop_stack); return;
\* (variant of Fatal: the return left out)
FatalNoReturn(kind, arg) ==
    /\ stderr' = Append(stderr, Diag(kind, arg))
    /\ state' = state
Fatal(kind, arg) ==
    /\ stderr' = Append(stderr, Diag(kind, arg))
    /\ state' = "returned"

\* break; pc++ with no diagnostic
Advance(p) ==
    /\ pc' = p + 1
    /\ stderr' = stderr
    /\ state' = state

\* history: what the dispatched instruction saw.  n counts the consecutive
\* dispatches of the same pointer or cell instruction ending with this one,
\* p0 and c0 are the pointer and the current cell before the first of them.
Counted == {">", "<", "+", "-"}
Snap(c) ==
    LET cont == /\ hist # << >>
                /\ hist[Len(hist)].ins = c
                /\ c \in Counted
        last == hist[Len(hist)]
    IN  [ins |-> c, pc |-> pc, ptr |-> ptr, cell |-> memory[ptr],
         depth |-> Len(loop_stack),
         n  |-> IF cont THEN last.n + 1 ELSE 1,
         p0 |-> IF cont THEN last.p0 ELSE ptr,
         c0 |-> IF cont THEN last.c0 ELSE memory[ptr]]
\* a loop body is entered by a `[` that pushes and by a `]` that jumps back
EntersBody(c) ==
    \/ c = "[" /\ memory[ptr] # 0 /\ ~StackFull(loop_stack)
    \/ c = "]" /\ memory[ptr] # 0 /\ Len(loop_stack) > 0
Record(c) ==
    /\ hist' = IF hist = << >> THEN <<Snap(c)>> ELSE <<hist[Len(hist)], Snap(c)>>
    /\ body_runs' = IF EntersBody(c) /\ body_runs < RunCap
                    THEN body_runs + 1
                    ELSE body_runs
    /\ twin' = TwinStep(twin)

InputIdle == UNCHANGED <<input_buffer, input_pos, input_size, stdin,
                         written, eof_seen>>
ConfigFixed == UNCHANGED <<source, code, wrap_memory, memory_size, eof_behavior,
                           debug_mode, stdin0>>

\* case '>'
MoveRight ==
    /\ Dispatch(">")
    /\ DebugHook(">")
    /\ IF RightAllowed(ptr, memory_size, wrap_memory)
       THEN /\ ptr' = RightTarget(ptr, memory_size, wrap_memory)
            /\ Advance(pc)
       ELSE /\ Fatal("OutOfBounds", pc)
            /\ UNCHANGED <<ptr, pc>>
    /\ Record(">")
    /\ InputIdle /\ ConfigFixed
    /\ UNCHANGED <<memory, loop_stack, stdout, open_unmatched>>

\* case '<'
MoveLeft ==
    /\ Dispatch("<")
    /\ DebugHook("<")
    /\ IF LeftAllowed(ptr, memory_size, wrap_memory)
       THEN /\ ptr' = LeftTarget(ptr, memory_size, wrap_memory)
            /\ Advance(pc)
       ELSE /\ Fatal("OutOfBounds", pc)
            /\ UNCHANGED <<ptr, pc>>
    /\ Record("<")
    /\ InputIdle /\ ConfigFixed
    /\ UNCHANGED <<memory, loop_stack, stdout, open_unmatched>>

\* case '+'
Increment ==
    /\ Dispatch("+")
    /\ DebugHook("+")
    /\ memory' = [memory EXCEPT ![ptr] = IncCell(memory[ptr])]
    /\ Advance(pc)
    /\ Record("+")
    /\ InputIdle /\ ConfigFixed
    /\ UNCHANGED <<ptr, loop_stack, stdout, open_unmatched>>

\* case '-'
Decrement ==
    /\ Dispatch("-")
    /\ DebugHook("-")
    /\ memory' = [memory EXCEPT ![ptr] = DecCell(memory[ptr])]
    /\ Advance(pc)
    /\ Record("-")
    /\ InputIdle /\ ConfigFixed
    /\ UNCHANGED <<ptr, loop_stack, stdout, open_unmatched>>

\* case '.' (variant: the cell is cleared once written)
OutputClears ==
    /\ Dispatch(".")
    /\ DebugHook(".")
    /\ Len(stdout) < MaxOut
    /\ stdout' = Append(stdout, memory[ptr])
    /\ memory' = [memory EXCEPT ![ptr] = 0]
    /\ Advance(pc)
    /\ Record(".")
    /\ InputIdle /\ ConfigFixed
    /\ UNCHANGED <<ptr, loop_stack, open_unmatched>>

\* case '.' (variant: the byte is written only when debug_mode is off)
OutputUnlessDebug ==
    /\ Dispatch(".")
    /\ DebugHook(".")
    /\ Len(stdout) < MaxOut
    /\ stdout' = IF debug_mode THEN stdout ELSE Append(stdout, memory[ptr])
    /\ Advance(pc)
    /\ Record(".")
    /\ InputIdle /\ ConfigFixed
    /\ UNCHANGED <<memory, ptr, loop_stack, open_unmatched>>

\* case '.': putchar(*ptr)
Output ==
    /\ Dispatch(".")
    /\ DebugHook(".")
    /\ Len(stdout) < MaxOut
    /\ stdout' = Append(stdout, memory[ptr])
    /\ Advance(pc)
    /\ Record(".")
    /\ InputIdle /\ ConfigFixed
    /\ UNCHANGED <<memory, ptr, loop_stack, open_unmatched>>

\* case ','
Input ==
    /\ Dispatch(",")
    /\ DebugHook(",")
    /\ LET r == Refill(input_buffer, input_pos, input_size, stdin)
       IN  /\ input_buffer' = r.buf
           /\ input_size' = r.size
           /\ stdin' = r.stream
           /\ IF r.pos < r.size
              THEN /\ memory' = [memory EXCEPT ![ptr] = ToUChar(r.buf[r.pos + 1])]
                   /\ input_pos' = r.pos + 1
                   /\ written' = Append(written, ToUChar(r.buf[r.pos + 1]))
                   /\ eof_seen' = eof_seen
              ELSE /\ memory' = [memory EXCEPT ![ptr] = EofCell(memory[ptr], eof_behavior)]
                   /\ input_pos' = r.pos
                   /\ written' = written
                   /\ eof_seen' = TRUE
    /\ Advance(pc)
    /\ Record(",")
    /\ ConfigFixed
    /\ UNCHANGED <<ptr, loop_stack, stdout, open_unmatched>>

\* case '['
LoopStart ==
    /\ Dispatch("[")
    /\ DebugHook("[")
    /\ IF memory[ptr] = 0
       THEN LET r == SkipScan(code, pc, 1)
            IN  IF r.found
                THEN Advance(r.pc)
                ELSE /\ Fatal("UnmatchedOpen", UnmatchedOpenPos(loop_stack, r.pc))
                     /\ pc' = r.pc
       ELSE IF StackFull(loop_stack)
            THEN /\ Fatal("LoopStackOverflow", MAX_NESTED_LOOPS)
                 /\ pc' = pc
            ELSE Advance(pc)
    /\ loop_stack' = IF memory[ptr] # 0 /\ ~StackFull(loop_stack)
                     THEN Append(loop_stack, pc)
                     ELSE loop_stack
    /\ open_unmatched' = (open_unmatched \/ ~HasClose(code, pc))
    /\ Record("[")
    /\ InputIdle /\ ConfigFixed
    /\ UNCHANGED <<memory, ptr, stdout>>

\* case ']' (variant: the stack_pos-- on a zero cell left out)
LoopEndNoPop ==
    /\ Dispatch("]")
    /\ DebugHook("]")
    /\ IF Len(loop_stack) <= 0
       THEN /\ Fatal("UnmatchedClose", pc)
            /\ UNCHANGED <<pc, loop_stack>>
       ELSE IF memory[ptr] # 0
            THEN /\ Advance(JumpBack(loop_stack))
                 /\ loop_stack' = loop_stack
            ELSE /\ Advance(pc)
                 /\ loop_stack' = loop_stack
    /\ Record("]")
    /\ InputIdle /\ ConfigFixed
    /\ UNCHANGED <<memory, ptr, stdout, open_unmatched>>

\* case ']' (variant: the empty-stack test made only on the jump-back branch)
LoopEndLenient ==
    /\ Dispatch("]")
    /\ DebugHook("]")
    /\ IF memory[ptr] # 0
       THEN IF Len(loop_stack) <= 0
            THEN /\ Fatal("UnmatchedClose", pc)
                 /\ UNCHANGED <<pc, loop_stack>>
            ELSE /\ Advance(JumpBack(loop_stack))
                 /\ loop_stack' = loop_stack
       ELSE /\ Advance(pc)
            /\ loop_stack' = SubSeq(loop_stack, 1, Len(loop_stack) - 1)
    /\ Record("]")
    /\ InputIdle /\ ConfigFixed
    /\ UNCHANGED <<memory, ptr, stdout, open_unmatched>>

\* case ']'
LoopEnd ==
    /\ Dispatch("]")
    /\ DebugHook("]")
    /\ IF Len(loop_stack) <= 0
       THEN /\ Fatal("UnmatchedClose", pc)
            /\ UNCHANGED <<pc, loop_stack>>
       ELSE IF memory[ptr] # 0
            THEN /\ Advance(JumpBack(loop_stack))
                 /\ loop_stack' = loop_stack
            ELSE /\ Advance(pc)
                 /\ loop_stack' = SubSeq(loop_stack, 1, Len(loop_stack) - 1)
    /\ Record("]")
    /\ InputIdle /\ ConfigFixed
    /\ UNCHANGED <<memory, ptr, stdout, open_unmatched>>

\* the loop condition fails: the stack_pos != 0 check, the frees, the return
Finish ==
    /\ state = "running"
    /\ pc >= Len(code)
    /\ stderr' = IF Len(loop_stack) # 0
                 THEN Append(stderr, Diag("UnclosedLoops", Len(loop_stack)))
                 ELSE stderr
    /\ state' = "returned"
    /\ InputIdle /\ ConfigFixed
    /\ twin' = TwinStep(twin)
    /\ UNCHANGED <<memory, ptr, pc, loop_stack, stdout, debug_out,
                   open_unmatched, body_runs, hist>>

Next ==
    \/ MoveRight
    \/ MoveLeft
    \/ Increment
    \/ Decrement
    \/ Output
    \/ Input
    \/ LoopStart
    \/ LoopEnd
    \/ Finish

Spec == Init /\ [][Next]_vars

(***************************************************************************)
(* The counting loops: n times `+`, then `[-]` or `[+]`                    *)
(***************************************************************************)
CountPrograms ==
    {Repeat("+", n) \o <<"[", x, "]">> : n \in 1..(CellMod - 1), x \in {"-", "+"}}

InitCount ==
    /\ code \in CountPrograms
    /\ source = code
    /\ wrap_memory = FALSE
    /\ memory_size = 1
    /\ eof_behavior = FALSE
    /\ debug_mode = FALSE
    /\ stdin = << >>
    /\ memory = [i \in 0..(memory_size - 1) |-> 0]
    /\ ptr = 0
    /\ pc = 0
    /\ loop_stack = << >>
    /\ input_buffer = << >>
    /\ input_pos = 0
    /\ input_size = 0
    /\ stdout = << >>
    /\ stderr = << >>
    /\ debug_out = << >>
    /\ state = "running"
    /\ stdin0 = stdin
    /\ written = << >>
    /\ eof_seen = FALSE
    /\ open_unmatched = FALSE
    /\ body_runs = 0
    /\ twin = NoTwin
    /\ hist = << >>

NextCount ==
    \/ Increment
    \/ Decrement
    \/ LoopStart
    \/ LoopEnd
    \/ Finish

\* the engine is one sequential loop: while it has not returned it takes
\* its next step
SpecCount == InitCount /\ [][NextCount]_vars /\ WF_vars(NextCount)

(***************************************************************************)
(* Runs with and without debug_mode, each followed together with its twin, *)
(* the run of the same program, settings and input with the other value    *)
(* of debug_mode                                                           *)
(***************************************************************************)
\* the locals of execute_brainfuck and the streams at entry
EngineStart ==
    /\ memory = [i \in 0..(memory_size - 1) |-> 0]
    /\ ptr = 0
    /\ pc = 0
    /\ loop_stack = << >>
    /\ input_buffer = << >>
    /\ input_pos = 0
    /\ input_size = 0
    /\ stdout = << >>
    /\ stderr = << >>
    /\ debug_out = << >>
    /\ stdin0 = stdin
    /\ written = << >>
    /\ eof_seen = FALSE
    /\ open_unmatched = FALSE
    /\ body_runs = 0
    /\ hist = << >>

\* a tape long enough for the debug window to be cut at neither, one or both
\* of its ends, and programs that walk the pointer along it
DebugMem == 2 * DebugContext + 3
DebugWalks == {Repeat(">", DebugMem - 1), <<"<", "+", "<">>}

\* input sources of a newline and a letter
DebugInputs == SeqsUpTo({10, 65}, MaxIn)

InitDebug ==
    /\ code \in Programs \cup Examples \cup DebugWalks
    /\ source = code
    /\ wrap_memory \in (IF Uses(code, {">", "<"}) THEN BOOLEAN ELSE {FALSE})
    /\ memory_size \in (IF code \in DebugWalks THEN {DebugMem}
                        ELSE IF Uses(code, {">", "<"}) THEN 1..MaxMem ELSE {1})
    /\ eof_behavior \in (IF Uses(code, {","}) THEN BOOLEAN ELSE {FALSE})
    /\ debug_mode \in BOOLEAN
    /\ stdin \in (IF Uses(code, {","}) THEN DebugInputs ELSE {<< >>})
    /\ EngineStart
    /\ state = "running"
    /\ twin = Twin0("engine", ~debug_mode)

SpecDebug == InitDebug /\ [][Next]_vars

(***************************************************************************)
(* clean_code, and main's call of it on the loaded program buffer          *)
(***************************************************************************)
\* the NUL character, and characters outside the alphabet
NUL == "NUL"
SourceChars == Alphabet \cup {"x", " ", NUL}

\* strlen(input): the characters before the first NUL (main stores one
\* right after the characters read)
RECURSIVE SourceLenFrom(_, _)
SourceLenFrom(src, n) ==
    IF n >= Len(src) \/ src[n + 1] = NUL THEN n ELSE SourceLenFrom(src, n + 1)
SourceLen(src) == SourceLenFrom(src, 0)

\* the for loop of clean_code: i is the index into input, out is cleaned[0..j-1]
RECURSIVE CleanFrom(_, _, _, _)
CleanFrom(src, i, input_len, out) ==
    IF i >= input_len THEN out
    ELSE CleanFrom(src, i + 1, input_len,
                   IF src[i + 1] \in Alphabet THEN Append(out, src[i + 1]) ELSE out)
CleanCode(src) == CleanFrom(src, 0, SourceLen(src), << >>)

\* cleaned_code = clean_code(program); execute_brainfuck(cleaned_code, config)
\* up to the first test of the loop condition
Load ==
    /\ state = "loaded"
    /\ code' = CleanCode(source)
    /\ state' = "running"
    /\ UNCHANGED <<source, wrap_memory, memory_size, eof_behavior, debug_mode,
                   memory, ptr, pc, loop_stack, input_buffer, input_pos,
                   input_size, stdin, stdout, stderr, debug_out, stdin0,
                   written, eof_seen, open_unmatched, body_runs, twin, hist>>

MaxSrc == 3          \* a source text has at most MaxSrc characters
Sources == SeqsUpTo(SourceChars, MaxSrc)

InitClean ==
    /\ source \in Sources
    /\ code = << >>
    /\ wrap_memory = FALSE
    /\ memory_size = 1
    /\ eof_behavior = FALSE
    /\ debug_mode = FALSE
    /\ stdin = << >>
    /\ EngineStart
    /\ state = "loaded"
    /\ twin = NoTwin

NextClean ==
    \/ Load
    \/ Next

SpecClean == InitClean /\ [][NextClean]_vars


(***************************************************************************)
(* Well-bracketed programs, each run followed together with the reference  *)
(* interpreter (the twin of mode "table") on the same settings and input   *)
(***************************************************************************)
\* ++++++++[>++++++++<-]>.
Times8 == Repeat("+", 8) \o <<"[", ">">> \o Repeat("+", 8)
              \o <<"<", "-", "]", ">", ".">>

InitTable ==
    /\ code \in {c \in Programs \cup BracketPrograms \cup Examples : WellMatched(c)}
    /\ source = code
    /\ wrap_memory \in (IF Uses(code, {">", "<"}) THEN BOOLEAN ELSE {FALSE})
    /\ memory_size \in (IF code = Times8 THEN 1..MaxMem \cup {DEFAULT_MEMORY_SIZE}
                        ELSE IF Uses(code, {">", "<"}) THEN 1..MaxMem ELSE {1})
    /\ eof_behavior \in (IF Uses(code, {","}) THEN BOOLEAN ELSE {FALSE})
    /\ debug_mode = FALSE
    /\ stdin \in (IF Uses(code, {","}) THEN Inputs ELSE {<< >>})
    /\ EngineStart
    /\ state = "running"
    /\ twin = Twin0("table", debug_mode)

SpecTable == InitTable /\ [][Next]_vars


(***************************************************************************)
(* Properties                                                              *)
(***************************************************************************)
Stepped == hist # << >>
Last == hist[Len(hist)]
Top(stack) == stack[Len(stack)]
Kinds == {stderr[i].kind : i \in 1..Len(stderr)}
FatalKinds == {"OutOfBounds", "UnmatchedOpen", "UnmatchedClose", "LoopStackOverflow"}

\* the step about to be taken is `]` on a non-zero cell with a non-empty stack
ReentryStep == Dispatch("]") /\ loop_stack # << >> /\ memory[ptr] # 0

\* C1 as stated: after `]` on a non-zero cell with a non-empty loop stack the
\* program counter equals the position on top of the loop stack (the `[`
\* itself, not the position past it) and the stack is not popped.
C1_AsStated ==
    [][ReentryStep => /\ pc' = Top(loop_stack)
                      /\ loop_stack' = loop_stack]_vars

\* C1 amended: after that step the program counter is the position on top of
\* the loop stack plus one, the first instruction after that `[` (which is
\* the `[` matching this `]` whenever this `]` has one); the `[` is not
\* dispatched again, the stack is not popped and no error is raised.
C1_Reentry ==
    [][ReentryStep => /\ pc' = Top(loop_stack) + 1
                      /\ loop_stack' = loop_stack
                      /\ code[Top(loop_stack) + 1] = "["
                      /\ (HasOpen(code, pc) => Top(loop_stack) = OpenOf(code, pc))
                      /\ state' = "running"
                      /\ stderr' = stderr]_vars

\* C1 witness: an inner `]` (two open loops) has just jumped back
C1_Witness ==
    /\ Stepped
    /\ Last.ins = "]"
    /\ Last.depth >= 2
    /\ Last.cell # 0
    /\ pc = Top(loop_stack) + 1
    /\ pc <= Last.pc

\* the step about to be taken is `[` on a zero cell, and this `[` has a
\* matching `]`
SkipStep == Dispatch("[") /\ memory[ptr] = 0 /\ HasClose(code, pc)

\* C2: a matched `[` dispatched on a zero cell skips to its matching `]` under
\* any nesting: the step dispatches nothing but the `[`, leaves tape, pointer,
\* loop stack and output unchanged, raises no error, and execution continues
\* with the instruction after the matching `]`.
C2_Skip ==
    [][SkipStep => /\ pc' = CloseOf(code, pc) + 1
                   /\ UNCHANGED <<memory, ptr, loop_stack, stdout>>
                   /\ hist'[Len(hist')].pc = pc
                   /\ hist'[Len(hist')].ins = "["
                   /\ stderr' = stderr
                   /\ state' = "running"]_vars

\* C2 witness: a `[` whose body holds a further loop has just been skipped
C2_Witness ==
    /\ Stepped
    /\ Last.ins = "["
    /\ Last.cell = 0
    /\ HasClose(code, Last.pc)
    /\ \E q \in (Last.pc + 1)..(CloseOf(code, Last.pc) - 1) : HasClose(code, q)
    /\ pc = CloseOf(code, Last.pc) + 1

\* C3 as stated: every run that dispatches a `[` without a matching `]`
\* yields UnmatchedOpen, whatever the current cell was.
C3_AsStated ==
    (state = "returned" /\ open_unmatched) => "UnmatchedOpen" \in Kinds

\* C3 amended: a `[` without a matching `]` dispatched on a zero cell yields
\* the fatal UnmatchedOpen at that step; dispatched on a non-zero cell it
\* raises no UnmatchedOpen and is pushed (unless the stack is full).  A run
\* that has dispatched such a `[` and ends always ends with a diagnostic: a
\* fatal error or UnclosedLoops.
C3_UnmatchedOpen ==
    /\ (Stepped /\ Last.ins = "[" /\ ~HasClose(code, Last.pc)) =>
          IF Last.cell = 0
          THEN /\ state = "returned"
               /\ Len(stderr) = 1
               /\ stderr[1].kind = "UnmatchedOpen"
          ELSE /\ "UnmatchedOpen" \notin Kinds
               /\ (Last.depth < MAX_NESTED_LOOPS =>
                      /\ Len(loop_stack) = Last.depth + 1
                      /\ Top(loop_stack) = Last.pc)
    /\ (state = "returned" /\ open_unmatched) =>
          Kinds \cap (FatalKinds \cup {"UnclosedLoops"}) # {}

\* C3 witness: the run of `[+` (an unmatched `[` on a zero cell) has halted
C3_Witness ==
    /\ Stepped
    /\ Last.ins = "["
    /\ Last.cell = 0
    /\ ~HasClose(code, Last.pc)
    /\ Len(code) > Last.pc + 1
    /\ "UnmatchedOpen" \in Kinds

\* C4: a `]` dispatched with an empty loop stack halts the run with
\* UnmatchedClose at that `]`, whether the current cell is zero or not; and a
\* `]` without a matching `[` is only ever reached with an empty loop stack.
C4_UnmatchedClose ==
    /\ (Stepped /\ Last.ins = "]" /\ Last.depth = 0) =>
          /\ state = "returned"
          /\ stderr = <<Diag("UnmatchedClose", Last.pc)>>
          /\ pc = Last.pc
    /\ (Dispatch("]") /\ ~HasOpen(code, pc)) => loop_stack = << >>

\* C4 witness: an unmatched `]` was reached on a zero cell after a loop ran
C4_Witness ==
    /\ Stepped
    /\ Last.ins = "]"
    /\ Last.depth = 0
    /\ Last.cell = 0
    /\ Last.pc >= 3
    /\ "UnmatchedClose" \in Kinds

\* C5: under the bounds policy `>` at the last index and `<` at index 0 halt
\* the run with OutOfBounds at that instruction, leaving pointer, tape and
\* output as they were; anywhere else the pointer moves by exactly one and
\* no error is raised.  memory_size ranges over 1 .. MaxMem.
C5_Bounds ==
    [][(~wrap_memory /\ (Dispatch(">") \/ Dispatch("<"))) =>
         LET edge == IF code[pc + 1] = ">" THEN memory_size - 1 ELSE 0
             step == IF code[pc + 1] = ">" THEN 1 ELSE -1
         IN  IF ptr = edge
             THEN /\ stderr' = <<Diag("OutOfBounds", pc)>>
                  /\ state' = "returned"
                  /\ UNCHANGED <<ptr, memory, stdout>>
             ELSE /\ ptr' = ptr + step
                  /\ ptr' \in 0..(memory_size - 1)
                  /\ pc' = pc + 1
                  /\ stderr' = stderr
                  /\ state' = "running"
                  /\ UNCHANGED <<memory, stdout>>]_vars

\* C5 witness: on a tape of at least two cells `>` has moved the pointer to
\* the last index and the next `>` has halted the run there
C5_Witness ==
    /\ ~wrap_memory
    /\ memory_size >= 2
    /\ Len(hist) = 2
    /\ hist[1].ins = ">"
    /\ Last.ins = ">"
    /\ Last.ptr = memory_size - 1
    /\ ptr = Last.ptr
    /\ stderr = <<Diag("OutOfBounds", Last.pc)>>

\* C6: under the wrap policy a pointer move never fails; `>` from the last
\* index goes to 0 and `<` from 0 goes to the last index; memory_size
\* consecutive `>` (or `<`) bring the pointer back to where it was, and `>`
\* then `<` (or `<` then `>`) leaves it where it was.
C6_Wrap ==
    (wrap_memory /\ Stepped /\ Last.ins \in {">", "<"}) =>
        /\ Kinds \cap FatalKinds = {}
        /\ pc = Last.pc + 1
        /\ Last.ins = ">" =>
              ptr = IF Last.ptr = memory_size - 1 THEN 0 ELSE Last.ptr + 1
        /\ Last.ins = "<" =>
              ptr = IF Last.ptr = 0 THEN memory_size - 1 ELSE Last.ptr - 1
        /\ Last.n % memory_size = 0 => ptr = Last.p0
        /\ (Len(hist) = 2 /\ {hist[1].ins, Last.ins} = {">", "<"}) =>
              ptr = hist[1].ptr

\* C6 witness: memory_size (at least 2) consecutive `>` have wrapped the
\* pointer around to its starting index
C6_Witness ==
    /\ wrap_memory
    /\ memory_size >= 2
    /\ Stepped
    /\ Last.ins = ">"
    /\ Last.n = memory_size
    /\ Last.ptr = memory_size - 1
    /\ ptr = Last.p0

\* C7: cell arithmetic is modulo 256 and raises no error: `+` turns 255 into
\* 0 and any other v into v + 1, `-` turns 0 into 255 and any other v into
\* v - 1; 255 `+` from 0 give 255 and the 256th gives 0; every cell is in
\* 0 .. 255.
C7_Cells ==
    /\ \A i \in DOMAIN memory : memory[i] \in 0..255
    /\ (Stepped /\ Last.ins = "+") =>
          /\ memory[ptr] = IF Last.cell = 255 THEN 0 ELSE Last.cell + 1
          /\ (Last.c0 = 0 /\ Last.n = 255) => memory[ptr] = 255
          /\ (Last.c0 = 0 /\ Last.n = 256) => memory[ptr] = 0
    /\ (Stepped /\ Last.ins = "-") =>
          memory[ptr] = IF Last.cell = 0 THEN 255 ELSE Last.cell - 1
    /\ (Stepped /\ Last.ins \in {"+", "-"}) =>
          /\ Kinds \cap FatalKinds = {}
          /\ pc = Last.pc + 1

\* C7 witness: the 256th consecutive `+` on a cell that held 0 has run
C7_Witness ==
    /\ Stepped
    /\ Last.ins = "+"
    /\ Last.c0 = 0
    /\ Last.n = 256
    /\ Last.cell = 255
    /\ memory[ptr] = 0

\* the step about to be taken is `,` with the buffer used up and the input
\* source at its end
EofStep == Dispatch(",") /\ input_pos >= input_size /\ stdin = << >>

\* C8: `,` at end of input raises no error and the run goes on with the next
\* instruction; the current cell becomes 0 when eof_behavior is set and keeps
\* its value otherwise; the input stays exhausted, so the same holds for
\* every later `,`.  `,.,.` fed the single byte 65 writes 65,65 (flag clear)
\* or 65,0 (flag set).
C8_Eof ==
    /\ [][EofStep =>
            /\ memory' = [memory EXCEPT
                             ![ptr] = IF eof_behavior THEN 0 ELSE memory[ptr]]
            /\ pc' = pc + 1
            /\ stderr' = stderr
            /\ state' = "running"
            /\ stdin' = << >>
            /\ input_pos' >= input_size'
            /\ UNCHANGED <<ptr, loop_stack, stdout>>]_vars
    /\ []((/\ code = <<",", ".", ",", ".">>
           /\ stdin0 = <<65>>
           /\ state = "returned") =>
              /\ stdout = <<65, IF eof_behavior THEN 0 ELSE 65>>
              /\ stderr = << >>)

\* C8 witness: `,.,.` fed 65 has finished with the flag clear, the second `,`
\* having met the end of input with 65 in the cell
C8_Witness ==
    /\ code = <<",", ".", ",", ".">>
    /\ stdin0 = <<65>>
    /\ ~eof_behavior
    /\ eof_seen
    /\ state = "returned"
    /\ stdout = <<65, 65>>

IsPrefix(s, t) == Len(s) <= Len(t) /\ \A i \in 1..Len(s) : s[i] = t[i]

\* C9: the filled size after a refill is the number of bytes obtained, the
\* values stored by `,` are the bytes of the input stream in order with none
\* dropped or altered, and the EOF branch is taken only when the input
\* source is exhausted.
C9_AsStated ==
    /\ input_size > 0 => input_size = Len(input_buffer)
    /\ IsPrefix(written, stdin0)
    /\ eof_seen => (written = stdin0 /\ stdin = << >>)

HasFatal == Kinds \cap FatalKinds # {}

\* C10: a fatal error halts the run at the step that detects it: it is the
\* only diagnostic ever reported (no second error, no UnclosedLoops even
\* with open loops on the stack) and no step of the engine follows it.
C10_Halt ==
    HasFatal =>
        /\ state = "returned"
        /\ Len(stderr) = 1
        /\ ~ENABLED Next

\* C10 witness: LoopStackOverflow has been reported with the stack full
C10_Witness ==
    /\ "LoopStackOverflow" \in Kinds
    /\ Len(loop_stack) = MAX_NESTED_LOOPS
    /\ state = "returned"

\* C11: the loop stack is empty before the first step; a run that reaches
\* the end of the sequence with no fatal error has an empty loop stack
\* exactly when the brackets of the program are well matched; when the stack
\* is not empty there, the return reports UnclosedLoops once, with the number
\* of stack entries as its count, and the program has a `[` with no matching
\* `]`; with an empty stack the return reports nothing.
C11_Unclosed ==
    /\ (~Stepped /\ state = "running") => loop_stack = << >>
    /\ (pc >= Len(code) /\ ~HasFatal) =>
          /\ pc = Len(code)
          /\ (loop_stack = << >>) <=> WellMatched(code)
          /\ loop_stack # << >> => OpenUnmatched(code) # {}
          /\ state = "returned" =>
                stderr = IF loop_stack # << >>
                         THEN <<Diag("UnclosedLoops", Len(loop_stack))>>
                         ELSE << >>

\* C11 witness: a run has returned at the end of the sequence with two open
\* loops on the stack and UnclosedLoops 2 reported
C11_Witness ==
    /\ state = "returned"
    /\ pc = Len(code)
    /\ Len(loop_stack) = 2
    /\ stderr = <<Diag("UnclosedLoops", 2)>>

\* C12: the loop stack never holds more than MAX_NESTED_LOOPS entries; a `[`
\* dispatched on a non-zero cell pushes its own position and raises nothing
\* when the stack holds fewer entries than that, and reports
\* LoopStackOverflow and returns, pushing nothing, when the stack holds
\* exactly that many; LoopStackOverflow is reported by no other step, so
\* never by a `[` dispatched on a zero cell.
C12_Capacity ==
    /\ Len(loop_stack) <= MAX_NESTED_LOOPS
    /\ (Stepped /\ Last.ins = "[" /\ Last.cell # 0) =>
          IF Last.depth < MAX_NESTED_LOOPS
          THEN /\ Len(loop_stack) = Last.depth + 1
               /\ Top(loop_stack) = Last.pc
               /\ ~HasFatal
          ELSE /\ Last.depth = MAX_NESTED_LOOPS
               /\ Len(loop_stack) = Last.depth
               /\ stderr = <<Diag("LoopStackOverflow", MAX_NESTED_LOOPS)>>
               /\ state = "returned"
    /\ "LoopStackOverflow" \in Kinds =>
          /\ Last.ins = "["
          /\ Last.cell # 0
          /\ Last.depth = MAX_NESTED_LOOPS

\* C12 witness: a `[` on a non-zero cell found the stack full, reported
\* LoopStackOverflow and left the stack as it was
C12_Witness ==
    /\ Stepped
    /\ Last.ins = "["
    /\ Last.cell # 0
    /\ Last.depth = MAX_NESTED_LOOPS
    /\ Len(loop_stack) = MAX_NESTED_LOOPS
    /\ "LoopStackOverflow" \in Kinds

\* the number of `+` in front of the loop of a counting program, and the
\* instruction in its loop body
LeadCount == Len(code) - 3
BodyIns == code[Len(code) - 1]

\* C13: every counting program (n in 1..255 times `+`, then `[-]` or `[+]`)
\* returns, and when it has returned the program counter is the length, the
\* cell is 0, the loop stack is empty, nothing was reported, and the loop
\* body was entered exactly n times for `[-]` and 256 - n times for `[+]`.
C13_CountingLoop ==
    /\ [](state = "returned" =>
            /\ pc = Len(code)
            /\ memory[0] = 0
            /\ loop_stack = << >>
            /\ stderr = << >>
            /\ body_runs = IF BodyIns = "-" THEN LeadCount
                                            ELSE CellMod - LeadCount)
    /\ <>(state = "returned")

\* C13 witness: `+[+]` has returned after 255 runs of the body, the last of
\* which wrapped the cell from 255 to 0
C13_Witness ==
    /\ state = "returned"
    /\ code = <<"+", "[", "+", "]">>
    /\ body_runs = CellMod - 1
    /\ Last.cell = 0
    /\ hist[1].cell = CellMod - 1

\* the part of the engine's state and of its effects that a run is compared
\* on: program counter, pointer, tape, loop stack, input buffer and cursor,
\* bytes written by `.`, diagnostics, and whether it has returned
Engine ==
    [pc |-> pc, ptr |-> ptr, memory |-> memory, loop_stack |-> loop_stack,
     input_buffer |-> input_buffer, input_pos |-> input_pos,
     input_size |-> input_size, stdin |-> stdin, stdout |-> stdout,
     stderr |-> stderr, state |-> state]
TwinEngine ==
    [pc |-> twin.pc, ptr |-> twin.ptr, memory |-> twin.memory,
     loop_stack |-> twin.loop_stack, input_buffer |-> twin.input_buffer,
     input_pos |-> twin.input_pos, input_size |-> twin.input_size,
     stdin |-> twin.stdin, stdout |-> twin.stdout, stderr |-> twin.stderr,
     state |-> twin.state]

\* C14: a run and the run of the same program on the same input and settings
\* with the other value of debug_mode are, after the same number of steps,
\* in the same engine state (program counter, pointer, tape, loop stack,
\* input cursor), have written the same bytes through `.` and have reported
\* the same diagnostics; the debug print happens only with debug_mode on and
\* reads only cells of the tape.
C14_DebugSilent ==
    /\ twin.mode = "engine"
    /\ twin.debug_mode = ~debug_mode
    /\ Engine = TwinEngine
    /\ ~debug_mode => debug_out = << >>
    /\ debug_out # << >> =>
          /\ 0 <= debug_out.start
          /\ debug_out.start <= debug_out.ptr
          /\ debug_out.ptr <= debug_out.end
          /\ debug_out.end <= memory_size - 1

\* C14 witness: a run with debug_mode on has printed a window cut at neither
\* end of the tape, and its twin with debug_mode off, which printed nothing,
\* is at the same pointer
C14_Witness ==
    /\ debug_mode
    /\ debug_out # << >>
    /\ debug_out.start > 0
    /\ debug_out.end < memory_size - 1
    /\ ~twin.debug_mode
    /\ twin.debug_out = << >>
    /\ twin.ptr = ptr
    /\ ptr > DebugContext

InAlphabet(ch) == ch \in Alphabet

\* C15 as stated: the cleaned sequence is the subsequence, in order, of all
\* the characters of the loaded source text that are in the alphabet (every
\* other character, whatever its value, dropped and no alphabet character
\* dropped), and the run of an empty cleaned sequence writes nothing and
\* reports nothing.
C15_AsStated ==
    state # "loaded" =>
        /\ code = SelectSeq(source, InAlphabet)
        /\ (code = << >> /\ state = "returned") =>
              (stdout = << >> /\ stderr = << >>)

\* C16: on a well-bracketed program the engine and the reference
\* interpreter that jumps by the static bracket pairs are, after the same
\* number of steps, at the same instruction with the same tape and pointer,
\* have read the same input and written the same bytes, and have ended the
\* same way, which is a return with nothing reported or with OutOfBounds
\* alone; ++++++++[>++++++++<-]>. with the default settings writes the
\* single byte 64.
C16_Table ==
    /\ twin.mode = "table"
    /\ WellMatched(code)
    /\ [Engine EXCEPT !.loop_stack = << >>] = TwinEngine
    /\ Kinds \subseteq {"OutOfBounds"}
    /\ (code = Times8 /\ memory_size = DEFAULT_MEMORY_SIZE /\ ~wrap_memory
        /\ state = "returned") =>
          (stdout = <<64>> /\ stderr = << >>)

\* C16 witness: ++++++++[>++++++++<-]>. has returned on the default tape
\* having written 64, and so has the reference interpreter
C16_Witness ==
    /\ code = Times8
    /\ memory_size = DEFAULT_MEMORY_SIZE
    /\ ~wrap_memory
    /\ state = "returned"
    /\ stdout = <<64>>
    /\ twin.state = "returned"
    /\ twin.stdout = <<64>>
    /\ body_runs = 8

\* the `[` positions of well-bracketed c whose loop encloses position at:
\* the static nesting at that position
Enclosing(c, at) ==
    {p \in 0..(Len(c) - 1) : c[p + 1] = "[" /\ p < at /\ at <= CloseOf(c, p)}

\* C17: in every state the loop stack holds positions of `[` instructions,
\* strictly increasing from bottom to top (so none twice) and all below the
\* program counter; for a well-bracketed program its entries are exactly the
\* `[` whose loop encloses the program counter, so its height is the static
\* nesting depth there however often the loops have been iterated, and
\* UnmatchedOpen, UnmatchedClose and UnclosedLoops are never reported.
C17_Stack ==
    /\ \A i \in 1..Len(loop_stack) :
          /\ loop_stack[i] \in 0..(Len(code) - 1)
          /\ code[loop_stack[i] + 1] = "["
          /\ loop_stack[i] < pc
    /\ \A i \in 1..(Len(loop_stack) - 1) : loop_stack[i] < loop_stack[i + 1]
    /\ WellMatched(code) =>
          /\ {loop_stack[i] : i \in 1..Len(loop_stack)} = Enclosing(code, pc)
          /\ Len(loop_stack) = Cardinality(Enclosing(code, pc))
          /\ Kinds \cap {"UnmatchedOpen", "UnmatchedClose", "UnclosedLoops"} = {}

\* C17 witness: in a well-bracketed program, two nested loops are open and a
\* loop body has been entered for at least the fourth time
C17_Witness ==
    /\ state = "running"
    /\ WellMatched(code)
    /\ Len(loop_stack) = 2
    /\ body_runs >= 4
    /\ Last.ins = "]"
    /\ Last.cell # 0

OtherCellsKept == \A i \in DOMAIN memory : i # ptr => memory'[i] = memory[i]

\* C18: before the first step every cell and the pointer are 0; a step of
\* `+`, `-` or `,` changes no cell but the current one and leaves pointer,
\* loop stack and output as they are; a step of `>` or `<` leaves tape, loop
\* stack, output and input buffer as they are; a step of `.` appends the
\* value of the current cell to the output and leaves tape, pointer and loop
\* stack as they are; a step of `[` or `]` leaves tape, pointer, output and
\* input buffer as they are; no step changes the length of the tape, the
\* instruction sequence or the settings.
C18_Frame ==
    /\ []((~Stepped /\ state = "running") =>
            (ptr = 0 /\ \A i \in DOMAIN memory : memory[i] = 0))
    /\ [][/\ DOMAIN memory' = DOMAIN memory
          /\ DOMAIN memory = 0..(memory_size - 1)
          /\ UNCHANGED <<code, wrap_memory, memory_size, eof_behavior, debug_mode>>
          /\ (Dispatch("+") \/ Dispatch("-") \/ Dispatch(",")) =>
                /\ OtherCellsKept
                /\ UNCHANGED <<ptr, loop_stack, stdout>>
          /\ (Dispatch(">") \/ Dispatch("<")) =>
                UNCHANGED <<memory, loop_stack, stdout, input_buffer,
                            input_pos, input_size, stdin>>
          /\ Dispatch(".") =>
                /\ stdout' = Append(stdout, memory[ptr])
                /\ UNCHANGED <<memory, ptr, loop_stack, input_buffer,
                               input_pos, input_size, stdin>>
          /\ (Dispatch("[") \/ Dispatch("]")) =>
                UNCHANGED <<memory, ptr, stdout, input_buffer, input_pos,
                            input_size, stdin>>
       ]_vars

\* C18 witness: `,` has stored a byte in cell 1 while cell 0 kept the
\* non-zero value it had
C18_Witness ==
    /\ Stepped
    /\ Last.ins = ","
    /\ Last.ptr = 1
    /\ ptr = 1
    /\ memory[0] # 0
    /\ memory[1] = 200
    /\ written = <<200>>

\* C19: in every state, a fatal one included, under either pointer policy
\* and every memory_size (at least 1), the pointer is an index of the tape
\* and the program counter is between 0 and the length of the sequence; the
\* program counter of every dispatch was below the length and the
\* instruction dispatched was the one at that position.
C19_Ranges ==
    /\ memory_size >= 1
    /\ ptr \in 0..(memory_size - 1)
    /\ ptr \in DOMAIN memory
    /\ pc \in 0..Len(code)
    /\ \A i \in 1..Len(hist) :
          /\ hist[i].pc \in 0..(Len(code) - 1)
          /\ hist[i].ins = code[hist[i].pc + 1]
          /\ hist[i].ptr \in 0..(memory_size - 1)

\* C19 witness: with the wrap policy on a tape of at least two cells, `<`
\* has taken the pointer from 0 to the last index and a `[` skip has then run
\* the program counter to the length, where UnmatchedOpen was reported
C19_Witness ==
    /\ wrap_memory
    /\ memory_size >= 2
    /\ ptr = memory_size - 1
    /\ Len(hist) = 2
    /\ hist[1].ins = "<"
    /\ hist[1].ptr = 0
    /\ Last.ins = "["
    /\ pc = Len(code)
    /\ "UnmatchedOpen" \in Kinds
    /\ state = "returned"

\* C20 as stated: the position reported with UnmatchedOpen is the position
\* of a `[` of the program: the one on top of the loop stack when the stack
\* is not empty, the position of the `[` whose skip failed when it is.
C20_AsStated ==
    "UnmatchedOpen" \in Kinds =>
        /\ stderr[1].arg \in 0..(Len(code) - 1)
        /\ code[stderr[1].arg + 1] = "["
        /\ stderr[1].arg = IF Last.depth > 0 THEN Top(loop_stack) ELSE Last.pc

====
